---- MODULE Spec2Model ----
(***************************************************************************)
(* Equilibrium-gated training schedulers of the GAN (src/model/gan.py) and *)
(* AEGAN (src/model/aegan.py) models: model construction (parameter        *)
(* wrapping and aliasing), graph setup (real-vs-generated rebalancing      *)
(* weights), GradientDescent.reset (optimizer-state allocation) and        *)
(* GradientDescent.train_epoch (update, gating, optimizer steps, epoch     *)
(* cost).                                                                  *)
(*                                                                         *)
(* Costs are fixed-point numbers in hundredths (0.68 is 68).  Fractions    *)
(* (weights, means) are pairs <<numerator, denominator>>.                  *)
(***************************************************************************)
EXTENDS Integers, Sequences, FiniteSets, TLC

(* ------------------------------ bounds -------------------------------- *)

\* parameters (one per layer) of every sub-network
NetSize == 2
\* largest minibatch size x_shape[0]
MaxBatchSize == 2
\* largest number of minibatches input.batches() yields per epoch
MaxBatches == 2
\* number of scheduler calls (reset, train_epoch) in one run
MaxCalls == 3

(* ------------------------- program constants -------------------------- *)

\* GradientDescent.__init__ default margin=0.4
DefaultMargin == 40
\* GradientDescent.__init__ default equilibrium=0.68
DefaultEquilibrium == 68

\* Python None; a present value v is modelled as such, a margin as <<v>>
None == <<>>

\* margins a scheduler is constructed with: None, the default, and zero
Margins == {None, <<DefaultMargin>>, <<0>>}

\* recon_depth values: pixel-space loss, and loss after the first layer
ReconDepths == {0, 1}

\* real_vs_gen_weight values: the default 0.5, and 0.66 (src/stl_aegan.py)
Weights == {<<1, 2>>, <<33, 50>>}

\* (real_cost, fake_cost, encoder_cost) triples model.update can return
\* (each of the four threshold tests fires for some triple, alone and with
\* another; 68 sits on the threshold of margin 0)
CostTriples ==
    { <<90, 90, 4>>, <<20, 100, 1>>, <<90, 110, 5>>,
      <<110, 90, 2>>, <<90, 20, 3>>, <<68, 68, 3>> }

(* ------------------------------ fractions ------------------------------ *)

RECURSIVE GCD(_, _)
GCD(a, b) == IF b = 0 THEN a ELSE GCD(b, a % b)

Abs(n) == IF n < 0 THEN -n ELSE n

\* lowest terms (a zero numerator or denominator is left as it is)
RatNorm(a) ==
    LET g == GCD(Abs(a[1]), Abs(a[2]))
    IN  IF g = 0 THEN a ELSE <<a[1] \div g, a[2] \div g>>

RatEq(a, b) == a[1] * b[2] = b[1] * a[2]
RatAdd(a, b) == RatNorm(<<a[1] * b[2] + b[1] * a[2], a[2] * b[2]>>)
RatSub(a, b) == RatNorm(<<a[1] * b[2] - b[1] * a[2], a[2] * b[2]>>)
RatMul(a, b) == RatNorm(<<a[1] * b[1], a[2] * b[2]>>)
RatInv(a) == <<a[2], a[1]>>
RatInt(n) == <<n, 1>>

RECURSIVE SeqSum(_)
SeqSum(s) == IF s = <<>> THEN 0 ELSE Head(s) + SeqSum(Tail(s))

RECURSIVE RatSum(_)
RatSum(s) == IF s = <<>> THEN RatInt(0) ELSE RatAdd(Head(s), RatSum(Tail(s)))

Min(a, b) == IF a < b THEN a ELSE b

(* ----------------------------- parameters ------------------------------ *)

\* a parameter object: the physical tensor it refers to (sub-network, index),
\* whether it is a SharedParameter, whether it is a WeightedParameter
Parameter(net, i) == [t |-> <<net, i>>, shared |-> FALSE, weighted |-> FALSE]

\* util.WeightedParameter(p, weight, grad_weight): same tensor, weights attached
WeightedParameter(p) == [p EXCEPT !.weighted = TRUE]

\* p.share(): a SharedParameter on the same tensor
Share(p) == [p EXCEPT !.shared = TRUE]

\* the parameter list of a freshly built sub-network
NetParams(net) == [i \in 1..NetSize |-> Parameter(net, i)]

MapWeighted(s) == [i \in 1..Len(s) |-> WeightedParameter(s[i])]
MapShare(s) == [i \in 1..Len(s) |-> Share(s[i])]

NoNets ==
    [encoder |-> <<>>, latent_encoder |-> <<>>, decoder |-> <<>>,
     generator |-> <<>>, discriminator |-> <<>>,
     decoder_neggrad |-> <<>>, discriminator_recon |-> <<>>]

\* the first recon_depth layers' parameters (collection[:recon_depth])
Prefix(s, n) == SubSeq(s, 1, Min(n, Len(s)))
Suffix(s, n) == SubSeq(s, Min(n, Len(s)) + 1, Len(s))

\* AEGAN.__init__: parameter lists of every member of self.collection
AEGAN_init(encoder, latent_encoder, decoder, discriminator, depth) ==
    LET dec == MapWeighted(decoder)
        recon == MapWeighted(Prefix(discriminator, depth))
    IN  [NoNets EXCEPT
            !.encoder = encoder,
            !.latent_encoder = latent_encoder,
            !.decoder = dec,
            !.decoder_neggrad = MapShare(dec),
            !.discriminator =
                IF depth > 0 THEN recon \o Suffix(discriminator, depth)
                ELSE discriminator,
            !.discriminator_recon =
                IF depth > 0 THEN MapShare(recon) ELSE <<>>]

\* GAN.__init__
GAN_init(generator, discriminator) ==
    [NoNets EXCEPT
        !.generator = MapWeighted(generator),
        !.discriminator = discriminator]

\* slip: the decoder group taken from the weight-sharing copy of the decoder
AEGAN_params_neggrad(n) ==
    [enc |-> n.encoder \o n.latent_encoder,
     dec |-> n.decoder_neggrad,
     dis |-> n.discriminator]

\* AEGAN.params: the (encoder, decoder, discriminator) groups
AEGAN_params(n) ==
    [enc |-> n.encoder \o n.latent_encoder,
     dec |-> n.decoder,
     dis |-> n.discriminator]

\* GAN.params: the (generator, discriminator) groups; the generator group is
\* carried in the dec field
GAN_params(n) ==
    [enc |-> <<>>,
     dec |-> n.generator,
     dis |-> n.discriminator]

(* ---------------------------- graph set-up ----------------------------- *)

\* AEGAN.setup: rows of the discriminator batch produced by the decoder
AEGAN_gen_size(batch_size, sample) ==
    IF sample THEN batch_size + batch_size ELSE batch_size

\* slip: generated rows weighted 1-w whatever their number (as GAN.setup does)
AEGAN_weights_unbalanced(batch_size, sample, w) ==
    LET gen_size == AEGAN_gen_size(batch_size, sample)
    IN  [i \in 1..(batch_size + gen_size) |->
            IF i <= batch_size THEN w ELSE RatSub(RatInt(1), w)]

\* AEGAN.setup: per-row weights, real rows first
AEGAN_weights(batch_size, sample, w) ==
    LET gen_size == AEGAN_gen_size(batch_size, sample)
        dis_batch_size == batch_size + gen_size
        real_weight == w
        gen_weight == RatMul(RatSub(RatInt(1), w), <<batch_size, gen_size>>)
    IN  [i \in 1..dis_batch_size |->
            IF i <= batch_size THEN real_weight ELSE gen_weight]

\* 1.0 / weights, the scale applied to the discriminator's input gradient
Reciprocal(weights) == [i \in 1..Len(weights) |-> RatInv(weights[i])]

\* GAN.setup: per-row weights; no scaling nodes at all when the weight is 0.5
GAN_weights(batch_size, w) ==
    IF ~RatEq(w, <<1, 2>>)
    THEN [i \in 1..(batch_size * 2) |->
            IF i <= batch_size THEN w ELSE RatSub(RatInt(1), w)]
    ELSE <<>>

(* ------------------------------- state --------------------------------- *)

VARIABLES
    kind,               \* "GAN" or "AEGAN": which model and scheduler
    margin,             \* GradientDescent.margin (None or a number)
    equilibrium,        \* GradientDescent.equilibrium
    real_vs_gen_weight, \* model.real_vs_gen_weight
    sample_z,           \* AEGAN.sample_z
    recon_depth,        \* AEGAN.recon_depth
    batch_size,         \* input.shapes: x_shape[0]
    n_batches,          \* number of minibatches input.batches() yields
    nets,               \* parameter lists of the model's sub-networks
    dis_weights,        \* ScaleGradient(dis_weights) after the discriminator
    dis_weights_inv,    \* ScaleGradient(dis_weights_inv) before it
    graph_setups,       \* number of times model.setup built the graph
    params_enc, params_dec, params_dis,    \* groups (params_gen is params_dec)
    lstates_enc, lstates_dec, lstates_dis, \* their optimizer states
    inits,              \* parameters init_state was called on, last reset
    pc,                 \* position of the scheduler
    calls,              \* scheduler calls made so far
    resets,             \* reset() calls made so far
    batch_costs,        \* train_epoch's list of per-batch cost tuples
    cost,               \* (real_cost, fake_cost, encoder) of this minibatch
    dec_update,         \* gate of the generator/decoder group
    dis_update,         \* gate of the discriminator group
    events,             \* what happened in this minibatch, in order
    grads,              \* <<call, batch>> whose gradients the graph holds
    steps,              \* learn_rule.step calls of this minibatch
    fed,                \* cost tuples model.update returned this epoch
    ret                 \* value the last train_epoch returned

vars ==
    <<kind, margin, equilibrium, real_vs_gen_weight, sample_z, recon_depth,
      batch_size, n_batches, nets, dis_weights, dis_weights_inv, graph_setups,
      params_enc, params_dec, params_dis, lstates_enc, lstates_dec,
      lstates_dis, inits, pc, calls, resets, batch_costs, cost, dec_update,
      dis_update, events, grads, steps, fed, ret>>

config ==
    <<kind, margin, equilibrium, real_vs_gen_weight, sample_z, recon_depth,
      batch_size, n_batches, nets>>

graph == <<dis_weights, dis_weights_inv, graph_setups>>

groups ==
    <<params_enc, params_dec, params_dis, lstates_enc, lstates_dec,
      lstates_dis, inits>>

minibatch == <<cost, dec_update, dis_update, events, grads, steps>>

\* the scheduler before reset() was ever called
Fresh ==
    /\ dis_weights = <<>> /\ dis_weights_inv = <<>> /\ graph_setups = 0
    /\ params_enc = <<>> /\ params_dec = <<>> /\ params_dis = <<>>
    /\ lstates_enc = <<>> /\ lstates_dec = <<>> /\ lstates_dis = <<>>
    /\ inits = <<>>
    /\ pc = "idle" /\ calls = 0 /\ resets = 0
    /\ batch_costs = <<>> /\ cost = None
    /\ dec_update = TRUE /\ dis_update = TRUE
    /\ events = <<>> /\ grads = None /\ steps = <<>> /\ fed = <<>>
    /\ ret = None

\* a model built from sub-networks that own all their parameters
Init ==
    /\ kind \in {"GAN", "AEGAN"}
    /\ margin \in Margins
    /\ equilibrium = DefaultEquilibrium
    /\ real_vs_gen_weight \in Weights
    /\ batch_size \in 1..MaxBatchSize
    /\ n_batches \in 1..MaxBatches
    /\ IF kind = "AEGAN"
       THEN /\ sample_z \in BOOLEAN
            /\ recon_depth \in ReconDepths
            /\ nets = AEGAN_init(NetParams("encoder"),
                                 NetParams("latent_encoder"),
                                 NetParams("decoder"),
                                 NetParams("discriminator"), recon_depth)
       ELSE /\ sample_z = FALSE
            /\ recon_depth = 0
            /\ nets = GAN_init(NetParams("generator"),
                               NetParams("discriminator"))
    /\ Fresh

(* ------------------------------- reset --------------------------------- *)

\* the parameters of a group that are not SharedParameter instances:
\* the ones states() calls learn_rule.init_state on, in order
NonShared(params) == SelectSeq(params, LAMBDA p : ~p.shared)

\* states(params): one fresh optimizer state per init_state call; a state
\* object is identified by the reset that made it and its call number
states(params, reset, offset) ==
    [i \in 1..Len(NonShared(params)) |-> [reset |-> reset, k |-> offset + i]]

\* the three groups' states and the init_state call log of one reset()
ResetGroups(p) ==
    /\ params_enc' = p.enc
    /\ params_dec' = p.dec
    /\ params_dis' = p.dis
    /\ lstates_enc' = states(p.enc, resets + 1, 0)
    /\ lstates_dec' = states(p.dec, resets + 1, Len(NonShared(p.enc)))
    /\ lstates_dis' = states(p.dis, resets + 1,
                             Len(NonShared(p.enc)) + Len(NonShared(p.dec)))
    /\ inits' = NonShared(p.enc) \o NonShared(p.dec) \o NonShared(p.dis)

\* aegan.GradientDescent.reset
AEGAN_reset ==
    /\ kind = "AEGAN" /\ pc = "idle" /\ calls < MaxCalls
    /\ dis_weights' = AEGAN_weights(batch_size, sample_z, real_vs_gen_weight)
    /\ dis_weights_inv' = Reciprocal(dis_weights')
    /\ graph_setups' = graph_setups + 1
    /\ ResetGroups(AEGAN_params(nets))
    /\ calls' = calls + 1
    /\ resets' = resets + 1
    /\ UNCHANGED <<config, pc, batch_costs, minibatch, fed, ret>>

\* gan.GradientDescent.reset
GAN_reset ==
    /\ kind = "GAN" /\ pc = "idle" /\ calls < MaxCalls
    /\ dis_weights' = GAN_weights(batch_size, real_vs_gen_weight)
    /\ dis_weights_inv' = Reciprocal(dis_weights')
    /\ graph_setups' = graph_setups + 1
    /\ ResetGroups(GAN_params(nets))
    /\ calls' = calls + 1
    /\ resets' = resets + 1
    /\ UNCHANGED <<config, pc, batch_costs, minibatch, fed, ret>>

(* ---------------------------- train_epoch ------------------------------ *)

\* slip: the backward pass is left out
AEGAN_update_no_bprop == <<"fprop">>

\* AEGAN.update: the passes over the graph, in order
AEGAN_update == <<"fprop", "bprop">>

\* GAN.update: the passes over the graph, in order
GAN_update == <<"fprop", "bprop">>

\* slip: no forced-both fallback
AEGAN_gates_no_fallback(m, eq, real_cost, fake_cost) ==
    [dec |-> ~(m # None /\ (real_cost > eq + m[1] \/ fake_cost > eq + m[1])),
     dis |-> ~(m # None /\ (real_cost < eq - m[1] \/ fake_cost < eq - m[1]))]

\* slip: the upper threshold computed as equilibrium - margin
AEGAN_gates_sign(m, eq, real_cost, fake_cost) ==
    LET dis1 == ~(m # None /\ (real_cost < eq - m[1] \/ fake_cost < eq - m[1]))
        dec1 == ~(m # None /\ (real_cost > eq - m[1] \/ fake_cost > eq - m[1]))
    IN  IF m # None /\ ~(dec1 \/ dis1)
        THEN [dec |-> TRUE, dis |-> TRUE]
        ELSE [dec |-> dec1, dis |-> dis1]

\* aegan train_epoch, lines 176-187: the (dec_update, dis_update) gates
AEGAN_gates(m, eq, real_cost, fake_cost) ==
    LET dis1 == IF m # None /\ (real_cost < eq - m[1] \/ fake_cost < eq - m[1])
                THEN FALSE ELSE TRUE
        dec1 == IF m # None /\ (real_cost > eq + m[1] \/ fake_cost > eq + m[1])
                THEN FALSE ELSE TRUE
    IN  IF m # None /\ ~(dec1 \/ dis1)
        THEN [dec |-> TRUE, dis |-> TRUE]
        ELSE [dec |-> dec1, dis |-> dis1]

\* slip: the two tests gate the wrong groups
GAN_gates_swapped(m, eq, real_cost, fake_cost) ==
    LET gen1 == ~(m # None /\ (real_cost < eq - m[1] \/ fake_cost < eq - m[1]))
        dis1 == ~(m # None /\ (real_cost > eq + m[1] \/ fake_cost > eq + m[1]))
    IN  IF m # None /\ ~(gen1 \/ dis1)
        THEN [dec |-> TRUE, dis |-> TRUE]
        ELSE [dec |-> gen1, dis |-> dis1]

\* slip: the fallback taken when either gate is off (and for or)
GAN_gates_and(m, eq, real_cost, fake_cost) ==
    LET dis1 == ~(m # None /\ (real_cost < eq - m[1] \/ fake_cost < eq - m[1]))
        gen1 == ~(m # None /\ (real_cost > eq + m[1] \/ fake_cost > eq + m[1]))
    IN  IF m # None /\ ~(gen1 /\ dis1)
        THEN [dec |-> TRUE, dis |-> TRUE]
        ELSE [dec |-> gen1, dis |-> dis1]

\* gan train_epoch, lines 113-124: the (gen_update, dis_update) gates
GAN_gates(m, eq, real_cost, fake_cost) ==
    LET dis1 == IF m # None /\ (real_cost < eq - m[1] \/ fake_cost < eq - m[1])
                THEN FALSE ELSE TRUE
        gen1 == IF m # None /\ (real_cost > eq + m[1] \/ fake_cost > eq + m[1])
                THEN FALSE ELSE TRUE
    IN  IF m # None /\ ~(gen1 \/ dis1)
        THEN [dec |-> TRUE, dis |-> TRUE]
        ELSE [dec |-> gen1, dis |-> dis1]

\* zip(params, states): the learn_rule.step(param, state) calls of one loop,
\* each tagged with its group and the gradients the graph held at the call
Zip(group, params, lstates, g) ==
    [i \in 1..Min(Len(params), Len(lstates)) |->
        [group |-> group, param |-> params[i], state |-> lstates[i],
         grad |-> g]]

\* slip: the encoder loop placed under the decoder gate
AEGAN_steps_gated_enc(dec, dis, g) ==
    (IF dec THEN Zip("enc", params_enc, lstates_enc, g)
                 \o Zip("dec", params_dec, lstates_dec, g) ELSE <<>>)
    \o (IF dis THEN Zip("dis", params_dis, lstates_dis, g) ELSE <<>>)

\* aegan train_epoch, lines 188-195: the step calls of one minibatch
AEGAN_steps(dec, dis, g) ==
    Zip("enc", params_enc, lstates_enc, g)
    \o (IF dec THEN Zip("dec", params_dec, lstates_dec, g) ELSE <<>>)
    \o (IF dis THEN Zip("dis", params_dis, lstates_dis, g) ELSE <<>>)

\* gan train_epoch, lines 125-130: the step calls of one minibatch
GAN_steps(gen, dis, g) ==
    (IF gen THEN Zip("dec", params_dec, lstates_dec, g) ELSE <<>>)
    \o (IF dis THEN Zip("dis", params_dis, lstates_dis, g) ELSE <<>>)

Column(costs, j) == [i \in 1..Len(costs) |-> costs[i][j]]

\* np.mean of a list of numbers, as a fraction
Mean(xs) == <<SeqSum(xs), Len(xs)>>

\* slip: the encoder mean left out of the sum (as gan train_epoch returns)
AEGAN_epoch_cost_no_encoder(costs) ==
    RatAdd(Mean(Column(costs, 1)), Mean(Column(costs, 2)))

\* aegan train_epoch, lines 196-199
AEGAN_epoch_cost(costs) ==
    RatAdd(RatAdd(Mean(Column(costs, 1)), Mean(Column(costs, 2))),
           Mean(Column(costs, 3)))

\* gan train_epoch, lines 131-134
GAN_epoch_cost(costs) ==
    RatAdd(Mean(Column(costs, 1)), Mean(Column(costs, 2)))

\* train_epoch is entered: batch_costs = [], the loop's locals not yet bound
TrainEpochBegin ==
    /\ pc = "idle" /\ resets > 0 /\ calls < MaxCalls
    /\ calls' = calls + 1
    /\ batch_costs' = <<>>
    /\ fed' = <<>>
    /\ ret' = None
    /\ cost' = None
    /\ dec_update' = TRUE
    /\ dis_update' = TRUE
    /\ events' = <<>>
    /\ steps' = <<>>
    /\ pc' = "loop"
    /\ UNCHANGED <<config, graph, groups, resets, grads>>

AEGAN_train_epoch == kind = "AEGAN" /\ TrainEpochBegin

GAN_train_epoch == kind = "GAN" /\ TrainEpochBegin

\* the next batch is drawn and model.update(**batch) evaluates the graph
AEGAN_train_update ==
    /\ kind = "AEGAN" /\ pc = "loop" /\ Len(batch_costs) < n_batches
    /\ \E c \in CostTriples :
        /\ cost' = c
        /\ fed' = Append(fed, c)
        /\ batch_costs' = Append(batch_costs, <<c[1], c[2], c[3]>>)
    /\ events' = AEGAN_update
    /\ grads' = IF \E i \in 1..Len(events') : events'[i] = "bprop"
                THEN <<calls, Len(fed')>> ELSE grads
    /\ steps' = <<>>
    /\ pc' = "gate"
    /\ UNCHANGED <<config, graph, groups, calls, resets, dec_update,
                   dis_update, ret>>

GAN_train_update ==
    /\ kind = "GAN" /\ pc = "loop" /\ Len(batch_costs) < n_batches
    /\ \E c \in CostTriples :
        /\ cost' = <<c[1], c[2]>>
        /\ fed' = Append(fed, <<c[1], c[2]>>)
        /\ batch_costs' = Append(batch_costs, <<c[1], c[2]>>)
    /\ events' = GAN_update
    /\ grads' = IF \E i \in 1..Len(events') : events'[i] = "bprop"
                THEN <<calls, Len(fed')>> ELSE grads
    /\ steps' = <<>>
    /\ pc' = "gate"
    /\ UNCHANGED <<config, graph, groups, calls, resets, dec_update,
                   dis_update, ret>>

\* the gating decision
AEGAN_train_gate ==
    /\ kind = "AEGAN" /\ pc = "gate"
    /\ LET g == AEGAN_gates(margin, equilibrium, cost[1], cost[2])
       IN  dec_update' = g.dec /\ dis_update' = g.dis
    /\ events' = Append(events, "gate")
    /\ pc' = "step"
    /\ UNCHANGED <<config, graph, groups, calls, resets, batch_costs, cost,
                   grads, steps, fed, ret>>

GAN_train_gate ==
    /\ kind = "GAN" /\ pc = "gate"
    /\ LET g == GAN_gates(margin, equilibrium, cost[1], cost[2])
       IN  dec_update' = g.dec /\ dis_update' = g.dis
    /\ events' = Append(events, "gate")
    /\ pc' = "step"
    /\ UNCHANGED <<config, graph, groups, calls, resets, batch_costs, cost,
                   grads, steps, fed, ret>>

\* the optimizer steps of the minibatch
AEGAN_train_step ==
    /\ kind = "AEGAN" /\ pc = "step"
    /\ steps' = AEGAN_steps(dec_update, dis_update, grads)
    /\ events' = events \o [i \in 1..Len(steps') |-> "step"]
    /\ pc' = "loop"
    /\ UNCHANGED <<config, graph, groups, calls, resets, batch_costs, cost,
                   dec_update, dis_update, grads, fed, ret>>

GAN_train_step ==
    /\ kind = "GAN" /\ pc = "step"
    /\ steps' = GAN_steps(dec_update, dis_update, grads)
    /\ events' = events \o [i \in 1..Len(steps') |-> "step"]
    /\ pc' = "loop"
    /\ UNCHANGED <<config, graph, groups, calls, resets, batch_costs, cost,
                   dec_update, dis_update, grads, fed, ret>>

\* input.batches() is exhausted: the epoch cost is returned
AEGAN_train_return ==
    /\ kind = "AEGAN" /\ pc = "loop" /\ Len(batch_costs) = n_batches
    /\ ret' = AEGAN_epoch_cost(batch_costs)
    /\ pc' = "idle"
    /\ UNCHANGED <<config, graph, groups, calls, resets, batch_costs,
                   minibatch, fed>>

GAN_train_return ==
    /\ kind = "GAN" /\ pc = "loop" /\ Len(batch_costs) = n_batches
    /\ ret' = GAN_epoch_cost(batch_costs)
    /\ pc' = "idle"
    /\ UNCHANGED <<config, graph, groups, calls, resets, batch_costs,
                   minibatch, fed>>

Next ==
    \/ AEGAN_reset
    \/ GAN_reset
    \/ AEGAN_train_epoch
    \/ GAN_train_epoch
    \/ AEGAN_train_update
    \/ GAN_train_update
    \/ AEGAN_train_gate
    \/ GAN_train_gate
    \/ AEGAN_train_step
    \/ GAN_train_step
    \/ AEGAN_train_return
    \/ GAN_train_return

Spec == Init /\ [][Next]_vars

(* ------------- models whose discriminator ties parameters -------------- *)

InsertAt(s, pos, x) == SubSeq(s, 1, pos - 1) \o <<x>> \o SubSeq(s, pos, Len(s))

\* parameter lists of a sub-network one of whose layers reuses, as a
\* SharedParameter, the parameter of another of its layers
TiedNets(net) ==
    { InsertAt(NetParams(net), pos, Share(Parameter(net, i))) :
        pos \in 1..(NetSize + 1), i \in 1..NetSize }

InitShared ==
    /\ kind \in {"GAN", "AEGAN"}
    /\ margin \in Margins
    /\ equilibrium = DefaultEquilibrium
    /\ real_vs_gen_weight = <<1, 2>>
    /\ batch_size = 1
    /\ n_batches \in 1..MaxBatches
    /\ sample_z = FALSE
    /\ recon_depth = 0
    /\ \E discriminator \in TiedNets("discriminator") :
        IF kind = "AEGAN"
        THEN nets = AEGAN_init(NetParams("encoder"),
                               NetParams("latent_encoder"),
                               NetParams("decoder"), discriminator, 0)
        ELSE nets = GAN_init(NetParams("generator"), discriminator)
    /\ Fresh

SpecShared == InitShared /\ [][Next]_vars

(* ------------------------------ properties ----------------------------- *)

Configured == margin # None

\* the "discriminator dominating" and "discriminator too weak" tests
Low ==
    Configured /\ (cost[1] < equilibrium - margin[1]
                   \/ cost[2] < equilibrium - margin[1])
High ==
    Configured /\ (cost[1] > equilibrium + margin[1]
                   \/ cost[2] > equilibrium + margin[1])

\* the gates hold the decision for the minibatch whose costs are in cost
Gated == pc = "step" \/ (pc \in {"loop", "idle"} /\ fed # <<>>)

\* the optimizer steps of that minibatch have been made
Stepped == pc \in {"loop", "idle"} /\ fed # <<>>

\* train_epoch is working on a minibatch: steps holds that minibatch's calls
InBatch == pc \in {"gate", "step"} \/ (pc = "loop" /\ batch_costs # <<>>)

StepsOf(group) == SelectSeq(steps, LAMBDA c : c.group = group)

DefaultConfig == margin = <<DefaultMargin>> /\ equilibrium = DefaultEquilibrium

\* C1: after the gating decision of any minibatch of either scheduler, with no
\* margin both gates are on; with a margin the discriminator gate is on iff
\* (not low) or (low and high), the generator/decoder gate iff (not high) or
\* (low and high).
C1_DecisionRule ==
    Gated =>
        IF ~Configured
        THEN dec_update /\ dis_update
        ELSE /\ dis_update <=> (~Low \/ (Low /\ High))
             /\ dec_update <=> (~High \/ (Low /\ High))

C1_Witness ==
    /\ Gated /\ kind = "GAN" /\ DefaultConfig
    /\ Low /\ ~High /\ ~dis_update /\ dec_update

\* C2: in every minibatch at least one of the generator/decoder and the
\* discriminator gates is on, and the group whose gate is on gets its steps.
C2_NoStall ==
    /\ Gated => (dec_update \/ dis_update)
    /\ Stepped =>
        /\ dec_update => Len(StepsOf("dec")) = Len(params_dec)
        /\ dis_update => Len(StepsOf("dis")) = Len(params_dis)
        /\ Len(StepsOf("dec")) + Len(StepsOf("dis")) > 0

C2_Witness ==
    /\ Stepped /\ kind = "AEGAN" /\ Low /\ High
    /\ dec_update /\ dis_update
    /\ StepsOf("dec") # <<>> /\ StepsOf("dis") # <<>>

AtCosts(real_cost, fake_cost) ==
    Gated /\ DefaultConfig /\ cost[1] = real_cost /\ cost[2] = fake_cost

\* C3 as stated: with margin 0.4 and equilibrium 0.68, real_cost = 0.9 and
\* fake_cost = 0.9 skip the generator/decoder update and keep the
\* discriminator update.
C3_AsStated == AtCosts(90, 90) => (~dec_update /\ dis_update)

\* C3 amended: with margin 0.4 and equilibrium 0.68, real_cost = 0.9 and
\* fake_cost = 0.9 trigger neither threshold (0.28 <= 0.9 <= 1.08): both the
\* generator/decoder update and the discriminator update proceed.
C3_BothProceed == AtCosts(90, 90) => (~Low /\ ~High /\ dec_update /\ dis_update)

C3_Witness ==
    /\ AtCosts(90, 90) /\ Stepped
    /\ StepsOf("dec") # <<>> /\ StepsOf("dis") # <<>>

\* C4 as stated: with margin 0.4 and equilibrium 0.68, real_cost = 0.2 and
\* fake_cost = 1.0 make both updates proceed.
C4_AsStated == AtCosts(20, 100) => (dec_update /\ dis_update)

\* C4 amended: with margin 0.4 and equilibrium 0.68, real_cost = 0.2 and
\* fake_cost = 1.0 trigger only the lower threshold (1.0 <= 1.08): the
\* discriminator update is skipped and the generator/decoder update proceeds.
C4_OnlyLow == AtCosts(20, 100) => (Low /\ ~High /\ dec_update /\ ~dis_update)

C4_Witness ==
    /\ AtCosts(20, 100) /\ Stepped
    /\ StepsOf("dec") # <<>> /\ StepsOf("dis") = <<>>

\* C5: in the AEGAN scheduler every parameter of the encoder and of the
\* latent encoder is stepped in every minibatch, whatever the gates are.
C5_EncoderAlways ==
    (Stepped /\ kind = "AEGAN") =>
        /\ params_enc = nets.encoder \o nets.latent_encoder
        /\ Len(StepsOf("enc")) = Len(params_enc)
        /\ \A i \in 1..Len(params_enc) : StepsOf("enc")[i].param = params_enc[i]

C5_Witness ==
    /\ Stepped /\ kind = "AEGAN" /\ ~dec_update
    /\ Len(StepsOf("enc")) = 2 * NetSize

\* the physical tensors of the model
Tensors ==
    { <<net, i>> : net \in
        (IF kind = "AEGAN"
         THEN {"encoder", "latent_encoder", "decoder", "discriminator"}
         ELSE {"generator", "discriminator"}),
      i \in 1..NetSize }

\* whether the group that owns tensor t has its gate on
GateOf(t) ==
    CASE t[1] \in {"encoder", "latent_encoder"} -> TRUE
      [] t[1] \in {"decoder", "generator"} -> dec_update
      [] OTHER -> dis_update

CountInits(t) == Cardinality({i \in 1..Len(inits) : inits[i].t = t})
CountSteps(t) == Cardinality({i \in 1..Len(steps) : steps[i].param.t = t})

C7_StepOwnState ==
    \A i \in 1..Len(steps) :
        /\ ~steps[i].param.shared
        /\ InBatch =>
            /\ steps[i].state.reset = resets
            /\ steps[i].state.k \in 1..Len(inits)
            /\ inits[steps[i].state.k] = steps[i].param

\* C8: inside train_epoch every minibatch is one forward pass, one backward
\* pass, the gating decision, then the steps, each step made on the gradients
\* of the current batch; the graph is built by reset() only.
C8_Ordering ==
    /\ graph_setups = resets
    /\ events # <<>> =>
        /\ Len(events) >= 2
        /\ \A i \in 1..Len(events) :
            events[i] = (CASE i = 1 -> "fprop" [] i = 2 -> "bprop"
                           [] i = 3 -> "gate" [] OTHER -> "step")
    /\ pc = "gate" => Len(events) = 2
    /\ pc = "step" => Len(events) = 3
    /\ InBatch =>
        \A i \in 1..Len(steps) : steps[i].grad = <<calls, Len(batch_costs)>>

C8_Witness ==
    /\ pc = "loop" /\ kind = "AEGAN" /\ Len(batch_costs) = 2
    /\ Len(steps) > 0 /\ Len(events) = 3 + Len(steps)

RECURSIVE Total(_)
Total(costs) ==
    IF costs = <<>> THEN 0 ELSE SeqSum(Head(costs)) + Total(Tail(costs))

\* C9: train_epoch returns the sum of the epoch means of the cost columns;
\* every batch contributes one tuple, whatever the gates were.
C9_EpochCost ==
    /\ Len(batch_costs) = Len(fed)
    /\ (pc = "idle" /\ ret # None) =>
        /\ Len(fed) = n_batches
        /\ ret[2] # 0
        /\ ret[1] * n_batches = Total(fed) * ret[2]

C9_Witness ==
    /\ pc = "idle" /\ ret # None /\ kind = "AEGAN" /\ Len(fed) = 2
    /\ fed[1] # fed[2] /\ ~dis_update /\ Configured

RowSum(w, from, to) == RatSum(SubSeq(w, from, to))

\* C10: after AEGAN.setup the real rows' weights sum to batch_size*w, the
\* generated rows' to batch_size*(1-w), and the input-side scale of each row
\* is the reciprocal of its output-side scale.
C10_Rebalancing ==
    (kind = "AEGAN" /\ graph_setups > 0) =>
        LET gen_size == IF sample_z THEN 2 * batch_size ELSE batch_size
            w == real_vs_gen_weight
        IN  /\ Len(dis_weights) = batch_size + gen_size
            /\ Len(dis_weights_inv) = Len(dis_weights)
            /\ RatEq(RowSum(dis_weights, 1, batch_size),
                     <<batch_size * w[1], w[2]>>)
            /\ RatEq(RowSum(dis_weights, batch_size + 1, batch_size + gen_size),
                     <<batch_size * (w[2] - w[1]), w[2]>>)
            /\ \A i \in 1..Len(dis_weights) :
                RatEq(RatMul(dis_weights[i], dis_weights_inv[i]), <<1, 1>>)

C10_Witness ==
    /\ kind = "AEGAN" /\ graph_setups > 0 /\ sample_z
    /\ batch_size = MaxBatchSize /\ real_vs_gen_weight = <<33, 50>>
    /\ Len(dis_weights) = 3 * batch_size

====
